---- MODULE Spec2Model ----
(***************************************************************************)
(* Model of go-cmd/run RunSync (src/sync.go): a runner that executes a     *)
(* batch of commands one after another, with concurrent Stop and Status.   *)
(*                                                                         *)
(* Threads: two callers of Run ("run1", "run2"), one caller of Stop and    *)
(* one caller of Status.  Every Lock() is a step of its own; the critical  *)
(* section that follows it, up to and including Unlock(), is one step.     *)
(* Statements executed without the lock are steps of their own.            *)
(* A Run call keeps nothing from one call to the next, so which thread     *)
(* makes a call does not matter: "run1" calls Run at any time, "run2"      *)
(* calls it only while a run is in progress (a call made while the runner  *)
(* is idle is the case of "run1").                                         *)
(* The external process primitive (github.com/go-cmd/cmd) is modelled by   *)
(* procs: one process object per command of the running batch.             *)
(* Indices are 0-based as in the source; slot i of a Go slice is element   *)
(* i+1 of the TLA+ sequence.                                               *)
(***************************************************************************)
EXTENDS Integers, Sequences, FiniteSets, TLC

\* ---- bounds ----
MaxLen == 2
MaxRuns == 2

\* ---- inputs ----
ExitCodes == {0, 1}
RunThreads == {"run1", "run2"}
Primary == "run1"

\* Program name of the command descriptor at 0-based position k of a batch.
NameAt(k) == IF k % 2 = 0 THEN "p" ELSE "q"

\* The batches a caller passes to Run: every length up to MaxLen.
Batches == {[k \in 1..n |-> NameAt(k - 1)] : n \in 0..MaxLen}

\* ---- errors (src/sync.go:138-147) ----
ErrRunning == "already running"
ErrStopped == "Stop called"
ErrNonzeroExit == "non-zero exit"
NoErr == "nil"
Pending == "pending"
TermErr == "terminate error"
SigTerm == "signal: terminated"

NilCmd == -1

VARIABLES
  \* RunSync fields (lines 12-22)
  stopOnError,  \* constructor flag
  mu,           \* holder of the embedded mutex, or "free"
  running,      \* running flag
  cmd,          \* current handle: 0-based index of its process, or NilCmd
  cur,          \* current index
  status,       \* the status slice
  stopChan,     \* [id: which make(chan) created it (0: nil), closed]
  \* per Run caller
  pc,           \* position in Run
  cmds,         \* the batch argument
  i,            \* loop index
  ret,          \* error returned by the last call (Pending while in a call)
  gen,          \* stopChan.id of the allocation made by the call (0: none)
  \* Stop caller
  stopPc,       \* position in Stop
  stopErr,      \* error returned by the last call
  stopSaw,      \* r.cmd and its process state as seen by the Stop that
                \* closed stopChan
  termCall,     \* the r.cmd.Stop() call of the last Stop call: [asked: the
                \* handle it was made on (NilCmd: no call), rep: its result]
  \* Status caller
  statPc,       \* position in Status
  snap,         \* value of r.cmd.Status() not yet stored
  \* external processes of the current batch
  procs         \* per command: [st, term: terminate requested, status]

rvars == <<stopOnError, running, cmd, cur, status, stopChan>>
vars == <<stopOnError, mu, running, cmd, cur, status, stopChan,
          pc, cmds, i, ret, gen, stopPc, stopErr, stopSaw, termCall,
          statPc, snap, procs>>

\* ---- cmd.Status values ----
\* Go zero value of cmd.Status: what make([]cmd.Status, n) fills the slots with.
ZeroStatus == [Cmd |-> "", PID |-> 0, Complete |-> FALSE, Exit |-> 0, Error |-> NoErr]

\* Status of a command object returned by cmd.NewCmd, before Start.
NewCmdStatus(name) ==
  [Cmd |-> name, PID |-> 0, Complete |-> FALSE, Exit |-> -1, Error |-> NoErr]

NoProc == [st |-> "absent", term |-> FALSE, status |-> ZeroStatus]

NewPID(g, k) == g * 100 + k + 1

\* Final statuses a process can deliver on its completion channel.
FinalStatuses(p) ==
  IF p.term
  THEN {[p.status EXCEPT !.Complete = FALSE, !.Exit = e,
                         !.Error = IF e = -1 THEN SigTerm ELSE NoErr]
          : e \in {-1, 0}}
  ELSE {[p.status EXCEPT !.Complete = TRUE, !.Exit = e] : e \in ExitCodes}

\* ---- RunSync helpers ----
\* r.stopped(): a receive from a closed channel succeeds, from an open or nil
\* channel the default branch is taken.
stopped == stopChan.closed

MakeStatusM(n) == [k \in 1..(n + 1) |-> ZeroStatus]
MakeStatus(n) == [k \in 1..n |-> ZeroStatus]

RejectedM == FALSE
Rejected == running

ExitFailsM(s) == s.Exit /= 0
ExitFails(s) == stopOnError /\ s.Exit /= 0

DeferredRunningM(e) == e /= NoErr
DeferredRunning(e) == FALSE

StopActiveM == TRUE
StopActive == running

\* Line 47: make(chan struct{}) creates a new, open channel.
NewStopChanM == [id |-> stopChan.id + 1, closed |-> stopChan.closed]
NewStopChan == [id |-> stopChan.id + 1, closed |-> FALSE]

\* Line 66: r.Unlock() after publishing the handle.
PublishReleaseM(t) == t
PublishRelease(t) == "free"

\* Line 68: the receive from the completion channel blocks until the
\* process has delivered its final status.
CompletedM(p) == TRUE
Completed(p) == p.st = "exited"

\* Line 102: Stop calls r.cmd.Stop() when there is a current handle.
StopTerminatesM == cmd /= NilCmd /\ ~stopped
StopTerminates == cmd /= NilCmd

\* Line 103, r.cmd.Stop(): what the terminate operation can report.  A
\* running process is signalled and the outcome of the signal is reported;
\* on a process that has not started or has already completed the call does
\* nothing and reports nil.
TerminateResults(p) == IF p.st = "running" THEN {NoErr, TermErr} ELSE {NoErr}

NoTermCall == [asked |-> NilCmd, rep |-> NoErr]

\* Line 114: the slot Status writes.
StatusSlotM == Len(status) - 1
StatusSlot == cur

\* ---- NewRunSync ----
Init ==
  /\ stopOnError \in BOOLEAN
  /\ mu = "free"
  /\ running = FALSE
  /\ cmd = NilCmd
  /\ cur = 0
  /\ status = << >>
  /\ stopChan = [id |-> 0, closed |-> FALSE]
  /\ pc = [t \in RunThreads |-> "idle"]
  /\ cmds = [t \in RunThreads |-> << >>]
  /\ i = [t \in RunThreads |-> 0]
  /\ ret = [t \in RunThreads |-> Pending]
  /\ gen = [t \in RunThreads |-> 0]
  /\ stopPc = "idle"
  /\ stopErr = Pending
  /\ stopSaw = [cmd |-> NilCmd, st |-> "absent"]
  /\ termCall = NoTermCall
  /\ statPc = "idle"
  /\ snap = ZeroStatus
  /\ procs = << >>

\* ---- Run ----
\* Run is called: r.Lock() at line 40.  The batch argument is not read
\* before line 46, so it is drawn there.
RunLock(t) ==
  /\ pc[t] = "idle"
  /\ mu = "free"
  /\ running \/ (t = Primary /\ stopChan.id < MaxRuns)
  /\ mu' = t
  /\ pc' = [pc EXCEPT ![t] = "enter"]
  /\ cmds' = [cmds EXCEPT ![t] = << >>]
  /\ i' = [i EXCEPT ![t] = 0]
  /\ ret' = [ret EXCEPT ![t] = Pending]
  /\ gen' = [gen EXCEPT ![t] = 0]
  /\ UNCHANGED <<rvars, stopPc, stopErr, stopSaw, termCall, statPc, snap, procs>>

\* Lines 41-49: reject when running, else allocate, mark Running, unlock.
RunEnter(t) ==
  /\ pc[t] = "enter"
  /\ mu = t
  /\ mu' = "free"
  /\ IF Rejected
     THEN /\ ret' = [ret EXCEPT ![t] = ErrRunning]
          /\ pc' = [pc EXCEPT ![t] = "idle"]
          /\ UNCHANGED <<rvars, gen, procs, cmds, stopSaw, termCall>>
     ELSE \E batch \in Batches :
          /\ cmds' = [cmds EXCEPT ![t] = batch]
          /\ status' = MakeStatus(Len(batch))
          /\ stopChan' = NewStopChan
          /\ running' = TRUE
          /\ gen' = [gen EXCEPT ![t] = stopChan.id + 1]
          /\ procs' = [k \in 1..Len(batch) |-> NoProc]
          /\ stopSaw' = [cmd |-> NilCmd, st |-> "absent"]
          /\ pc' = [pc EXCEPT ![t] = "loop"]
          /\ UNCHANGED <<stopOnError, cmd, cur, ret>>
  /\ UNCHANGED <<i, stopPc, stopErr, termCall, statPc, snap>>

\* Lines 57-62 and 80: loop head, r.stopped() without the lock, cmd.NewCmd.
RunLoop(t) ==
  /\ pc[t] = "loop"
  /\ IF i[t] >= Len(cmds[t])
     THEN /\ ret' = [ret EXCEPT ![t] = NoErr]
          /\ pc' = [pc EXCEPT ![t] = "defer"]
          /\ UNCHANGED procs
     ELSE IF stopped
     THEN /\ ret' = [ret EXCEPT ![t] = ErrStopped]
          /\ pc' = [pc EXCEPT ![t] = "defer"]
          /\ UNCHANGED procs
     ELSE /\ procs' = [procs EXCEPT ![i[t] + 1] =
                         [st |-> "new", term |-> FALSE,
                          status |-> NewCmdStatus(cmds[t][i[t] + 1])]]
          /\ pc' = [pc EXCEPT ![t] = "publock"]
          /\ UNCHANGED ret
  /\ UNCHANGED <<rvars, mu, cmds, i, gen, stopPc, stopErr, stopSaw, termCall, statPc, snap>>

\* Line 63: r.Lock()
RunPubLock(t) ==
  /\ pc[t] = "publock"
  /\ mu = "free"
  /\ mu' = t
  /\ pc' = [pc EXCEPT ![t] = "publish"]
  /\ UNCHANGED <<rvars, cmds, i, ret, gen, stopPc, stopErr, stopSaw, termCall, statPc, snap, procs>>

\* Lines 64-66: publish the handle and the index, unlock.
RunPublish(t) ==
  /\ pc[t] = "publish"
  /\ mu = t
  /\ cmd' = i[t]
  /\ cur' = i[t]
  /\ mu' = PublishRelease(t)
  /\ pc' = [pc EXCEPT ![t] = "start"]
  /\ UNCHANGED <<stopOnError, running, status, stopChan, cmds, i, ret, gen,
                 stopPc, stopErr, stopSaw, termCall, statPc, snap, procs>>

\* Line 68, cmd.Start(): the process is spawned.
RunStart(t) ==
  /\ pc[t] = "start"
  /\ procs' = [procs EXCEPT ![i[t] + 1].st = "running",
                            ![i[t] + 1].status.PID = NewPID(gen[t], i[t])]
  /\ pc' = [pc EXCEPT ![t] = "wait"]
  /\ UNCHANGED <<rvars, mu, cmds, i, ret, gen, stopPc, stopErr, stopSaw, termCall, statPc, snap>>

\* Line 68, r.status[i] = <-...: receive the final status and store it,
\* without the lock.
RunRecv(t) ==
  /\ pc[t] = "wait"
  /\ Completed(procs[i[t] + 1])
  /\ status' = [status EXCEPT ![i[t] + 1] = procs[i[t] + 1].status]
  /\ pc' = [pc EXCEPT ![t] = "clrlock"]
  /\ UNCHANGED <<stopOnError, mu, running, cmd, cur, stopChan, cmds, i, ret, gen,
                 stopPc, stopErr, stopSaw, termCall, statPc, snap, procs>>

\* Line 70: r.Lock()
RunClrLock(t) ==
  /\ pc[t] = "clrlock"
  /\ mu = "free"
  /\ mu' = t
  /\ pc' = [pc EXCEPT ![t] = "clear"]
  /\ UNCHANGED <<rvars, cmds, i, ret, gen, stopPc, stopErr, stopSaw, termCall, statPc, snap, procs>>

\* Lines 71-73: clear the handle and the index, unlock.
RunClear(t) ==
  /\ pc[t] = "clear"
  /\ mu = t
  /\ cmd' = NilCmd
  /\ cur' = -1
  /\ mu' = "free"
  /\ pc' = [pc EXCEPT ![t] = "exitchk"]
  /\ UNCHANGED <<stopOnError, running, status, stopChan, cmds, i, ret, gen,
                 stopPc, stopErr, stopSaw, termCall, statPc, snap, procs>>

\* Lines 75-78: read r.status[i].Exit without the lock; return or next i.
RunExitChk(t) ==
  /\ pc[t] = "exitchk"
  /\ IF ExitFails(status[i[t] + 1])
     THEN /\ ret' = [ret EXCEPT ![t] = ErrNonzeroExit]
          /\ pc' = [pc EXCEPT ![t] = "defer"]
          /\ UNCHANGED i
     ELSE /\ i' = [i EXCEPT ![t] = i[t] + 1]
          /\ pc' = [pc EXCEPT ![t] = "loop"]
          /\ UNCHANGED ret
  /\ UNCHANGED <<rvars, mu, cmds, gen, stopPc, stopErr, stopSaw, termCall, statPc, snap, procs>>

\* Line 52: r.Lock() of the deferred function.
RunDeferLock(t) ==
  /\ pc[t] = "defer"
  /\ mu = "free"
  /\ mu' = t
  /\ pc' = [pc EXCEPT ![t] = "deferred"]
  /\ UNCHANGED <<rvars, cmds, i, ret, gen, stopPc, stopErr, stopSaw, termCall, statPc, snap, procs>>

\* Lines 53-54: running = false, unlock; Run returns to its caller.
RunDefer(t) ==
  /\ pc[t] = "deferred"
  /\ mu = t
  /\ running' = DeferredRunning(ret[t])
  /\ mu' = "free"
  /\ pc' = [pc EXCEPT ![t] = "idle"]
  /\ i' = [i EXCEPT ![t] = 0]
  /\ UNCHANGED <<stopOnError, cmd, cur, status, stopChan, cmds, ret, gen,
                 stopPc, stopErr, stopSaw, termCall, statPc, snap, procs>>

\* ---- Stop ----
\* Stop is called (line 85).
StopCall ==
  /\ stopPc = "idle"
  /\ stopPc' = "call"
  /\ stopErr' = Pending
  /\ termCall' = NoTermCall
  /\ UNCHANGED <<rvars, mu, pc, cmds, i, ret, gen, stopSaw, statPc, snap, procs>>

\* Line 86: r.Lock()
StopLock ==
  /\ stopPc = "call"
  /\ mu = "free"
  /\ mu' = "stop"
  /\ stopPc' = "locked"
  /\ UNCHANGED <<rvars, pc, cmds, i, ret, gen, stopErr, stopSaw, termCall,
                 statPc, snap, procs>>

\* Lines 89-108 and the deferred Unlock.
StopBody ==
  /\ stopPc = "locked"
  /\ mu = "stop"
  /\ mu' = "free"
  /\ stopPc' = "idle"
  /\ IF ~StopActive
     THEN /\ stopErr' = NoErr
          /\ UNCHANGED <<stopChan, stopSaw, termCall, procs>>
     ELSE /\ IF ~stopped
             THEN /\ stopChan' = [stopChan EXCEPT !.closed = TRUE]
                  /\ stopSaw' = [cmd |-> cmd,
                                 st |-> IF cmd = NilCmd THEN "absent"
                                        ELSE procs[cmd + 1].st]
             ELSE UNCHANGED <<stopChan, stopSaw>>
          /\ IF StopTerminates
             THEN \E e \in TerminateResults(procs[cmd + 1]) :
                    /\ procs' = [procs EXCEPT ![cmd + 1].term =
                                    @ \/ procs[cmd + 1].st = "running"]
                    /\ termCall' = [asked |-> cmd, rep |-> e]
                    /\ stopErr' = e
             ELSE /\ stopErr' = NoErr
                  /\ UNCHANGED <<termCall, procs>>
  /\ UNCHANGED <<stopOnError, running, cmd, cur, status,
                 pc, cmds, i, ret, gen, statPc, snap>>

\* ---- Status ----
\* Status is called (line 110).
StatusCall ==
  /\ statPc = "idle"
  /\ statPc' = "call"
  /\ UNCHANGED <<rvars, mu, pc, cmds, i, ret, gen, stopPc, stopErr, stopSaw,
                 termCall, snap, procs>>

\* Line 111: r.Lock()
StatusLock ==
  /\ statPc = "call"
  /\ mu = "free"
  /\ mu' = "status"
  /\ statPc' = "locked"
  /\ UNCHANGED <<rvars, pc, cmds, i, ret, gen, stopPc, stopErr, stopSaw, termCall, snap, procs>>

\* Lines 113-114, right-hand side: r.cmd.Status() takes the snapshot; with
\* no handle, line 116 returns r.status and the deferred Unlock runs.
StatusRead ==
  /\ statPc = "locked"
  /\ mu = "status"
  /\ IF cmd /= NilCmd
     THEN /\ snap' = procs[cmd + 1].status
          /\ statPc' = "store"
          /\ UNCHANGED mu
     ELSE /\ mu' = "free"
          /\ statPc' = "idle"
          /\ UNCHANGED snap
  /\ UNCHANGED <<rvars, pc, cmds, i, ret, gen, stopPc, stopErr, stopSaw, termCall, procs>>

\* Line 114, assignment: r.status[r.cur] = snapshot; line 116 and Unlock.
StatusStore ==
  /\ statPc = "store"
  /\ mu = "status"
  /\ status' = [status EXCEPT ![StatusSlot + 1] = snap]
  /\ snap' = ZeroStatus
  /\ mu' = "free"
  /\ statPc' = "idle"
  /\ UNCHANGED <<stopOnError, running, cmd, cur, stopChan, pc, cmds, i, ret, gen,
                 stopPc, stopErr, stopSaw, termCall, procs>>

\* ---- external process ----
\* A running process exits and its final status becomes available on the
\* completion channel.
ProcExit(k) ==
  /\ k \in 1..Len(procs)
  /\ procs[k].st = "running"
  /\ \E f \in FinalStatuses(procs[k]) :
       procs' = [procs EXCEPT ![k].st = "exited", ![k].status = f]
  /\ UNCHANGED <<rvars, mu, pc, cmds, i, ret, gen, stopPc, stopErr, stopSaw, termCall, statPc, snap>>

Next ==
  \/ \E t \in RunThreads : RunLock(t)
  \/ \E t \in RunThreads : RunEnter(t)
  \/ \E t \in RunThreads : RunLoop(t)
  \/ \E t \in RunThreads : RunPubLock(t)
  \/ \E t \in RunThreads : RunPublish(t)
  \/ \E t \in RunThreads : RunStart(t)
  \/ \E t \in RunThreads : RunRecv(t)
  \/ \E t \in RunThreads : RunClrLock(t)
  \/ \E t \in RunThreads : RunClear(t)
  \/ \E t \in RunThreads : RunExitChk(t)
  \/ \E t \in RunThreads : RunDeferLock(t)
  \/ \E t \in RunThreads : RunDefer(t)
  \/ StopCall
  \/ StopLock
  \/ StopBody
  \/ StatusCall
  \/ StatusLock
  \/ StatusRead
  \/ StatusStore
  \/ \E k \in 1..MaxLen : ProcExit(k)

Spec == Init /\ [][Next]_vars

\* ---- fairness ----
\* The step of the thread that holds the lock: its critical section up to
\* the Unlock().  At most one thread holds the lock, so at most one of the
\* disjuncts is enabled.
LockHolderStep ==
  \/ \E t \in RunThreads : RunEnter(t) \/ RunPublish(t) \/ RunClear(t) \/ RunDefer(t)
  \/ StopBody
  \/ StatusRead
  \/ StatusStore

\* A step of an accepted Run outside its critical sections, and its Lock()
\* calls.
RunStep(t) == RunLoop(t) \/ RunStart(t) \/ RunRecv(t) \/ RunExitChk(t)
RunAcquire(t) == RunPubLock(t) \/ RunClrLock(t) \/ RunDeferLock(t)

\* A process on which terminate was requested while it was running exits.
TerminatedExit(k) == ProcExit(k) /\ procs[k].term

\* The Go scheduler runs every runnable goroutine, so a thread inside a
\* critical section finishes it; sync.Mutex hands the lock to a goroutine
\* blocked in Lock() (starvation mode), so a Stop or Status call that waits
\* for the lock gets it.  Nothing obliges a caller to begin a call, a Run to
\* proceed outside its critical sections, or a process to exit.
LockFairness ==
  /\ WF_vars(LockHolderStep)
  /\ SF_vars(StopLock)
  /\ SF_vars(StatusLock)

LiveSpec == Spec /\ LockFairness

\* In addition the Run loop proceeds and gets the lock it asks for, and a
\* terminate request makes a started process complete.
TermSpec ==
  /\ LiveSpec
  /\ \A t \in RunThreads : WF_vars(RunStep(t)) /\ SF_vars(RunAcquire(t))
  /\ \A k \in 1..MaxLen : WF_vars(TerminatedExit(k))

TypeOK ==
  /\ stopOnError \in BOOLEAN
  /\ mu \in {"free", "stop", "status"} \cup RunThreads
  /\ running \in BOOLEAN
  /\ cmd \in -1..(MaxLen - 1)
  /\ cur \in -1..(MaxLen - 1)
  /\ Len(status) <= MaxLen
  /\ stopChan.id \in 0..MaxRuns

\* ---- vocabulary of the claims ----
\* Thread t is inside an accepted Run call (between line 49 and the return).
InRun(t) == pc[t] \notin {"idle", "enter"}

\* Thread t's accepted Run call has returned and no later Run was accepted.
Returned(t) ==
  /\ pc[t] = "idle"
  /\ ret[t] \in {NoErr, ErrStopped, ErrNonzeroExit}
  /\ gen[t] = stopChan.id

\* The "not started" status of the spec for a command with program name n.
NotStarted(n) ==
  [Cmd |-> n, PID |-> 0, Complete |-> FALSE, Exit |-> -1, Error |-> NoErr]

\* Command k (1-based) is the first one that exited non-zero.
FirstNonzero(k) ==
  /\ procs[k].st = "exited"
  /\ procs[k].status.Exit /= 0
  /\ \A j \in 1..(k - 1) : procs[j].st = "exited" /\ procs[j].status.Exit = 0

\* A step launches command k (cmd.Start spawns its process).
Launches(k) ==
  /\ Len(procs') = Len(procs)
  /\ procs[k].st /= "running"
  /\ procs'[k].st = "running"

\* ---- C1 ----
\* C1: a Run call made while the runner is Running returns ErrRunning,
\* launches nothing and leaves running, status, cur, cmd and stopChan as
\* they were (both of its steps: taking the lock, and the rejection).
C1_RejectedRunHasNoEffect ==
  [][\A t \in RunThreads :
       /\ (pc[t] = "idle" /\ pc'[t] = "enter")
            => UNCHANGED <<rvars, procs>>
       /\ (pc[t] = "enter" /\ running /\ pc'[t] /= "enter")
            => /\ pc'[t] = "idle"
               /\ ret'[t] = ErrRunning
               /\ UNCHANGED <<rvars, procs>>]_vars

C1_Witness ==
  \E t, u \in RunThreads :
    /\ pc[t] = "idle" /\ ret[t] = ErrRunning
    /\ pc[u] = "wait" /\ procs[i[u] + 1].st = "running"

\* ---- C2 ----
\* C2: if the Stop that set the cancellation signal found a command
\* executing, the Run call returns ErrStopped.
C2_StopDuringCommandReturnsErrStopped ==
  \A t \in RunThreads :
    (Returned(t) /\ stopped /\ stopSaw.st = "running") => ret[t] = ErrStopped

\* ---- C3 ----
\* C3: once the cancellation signal is set, the only command Run may still
\* launch is the one whose handle was current at the moment of that Stop.
C3_NoLaunchAfterStop ==
  [][\A k \in 1..Len(procs) :
       (stopped /\ Launches(k)) => k - 1 = stopSaw.cmd]_vars

\* ---- C4 ----
\* C4: stopOnError, no Stop during the run, command k the first to exit
\* non-zero: Run returns ErrNonzeroExit, commands 0..k completed with their
\* exit codes in their slots, later commands never launched and their slots
\* "not started".
C4_StopOnErrorFirstNonzero ==
  \A t \in RunThreads :
    (Returned(t) /\ stopOnError /\ ~stopped) =>
      \A k \in 1..Len(procs) :
        FirstNonzero(k) =>
          /\ ret[t] = ErrNonzeroExit
          /\ \A j \in 1..k :
               /\ procs[j].st = "exited"
               /\ status[j].Exit = procs[j].status.Exit
          /\ \A j \in (k + 1)..Len(procs) :
               /\ procs[j].st = "absent"
               /\ status[j] = NotStarted(cmds[t][j])

\* ---- C5 ----
\* C5: without stopOnError and without a Stop during the run, Run returns
\* nil with every command of the batch completed; a command is launched
\* only once, after all earlier ones completed and before any later one
\* was created.
C5_AllCommandsRunInOrder ==
  /\ [](\A t \in RunThreads :
          (Returned(t) /\ ~stopOnError /\ ~stopped) =>
            /\ ret[t] = NoErr
            /\ Len(procs) = Len(cmds[t])
            /\ \A k \in 1..Len(procs) : procs[k].st = "exited")
  /\ [][\A k \in 1..Len(procs) :
          Launches(k) =>
            /\ procs[k].st = "new"
            /\ \A j \in 1..(k - 1) : procs[j].st = "exited"
            /\ \A j \in (k + 1)..Len(procs) : procs[j].st = "absent"]_vars

C5_Witness ==
  \E t \in RunThreads :
    /\ Returned(t) /\ ~stopOnError /\ ~stopped
    /\ Len(cmds[t]) >= 2
    /\ procs[1].status.Exit = 1
    /\ procs[2].st = "exited"

\* ---- C6 ----
\* C6: after Run returns, the slot of every launched command holds the
\* final status its completion signal delivered.
C6_SlotsHoldFinalStatus ==
  \A t \in RunThreads :
    Returned(t) =>
      \A k \in 1..Len(procs) :
        procs[k].st = "exited" => status[k] = procs[k].status

\* ---- C7 ----
\* C7: during an accepted Run and after it returns the status array has as
\* many slots as the batch, and only the acceptance of a Run changes its
\* length.
C7_StatusLengthIsBatchLength ==
  /\ [](\A t \in RunThreads :
          (InRun(t) \/ Returned(t)) => Len(status) = Len(cmds[t]))
  /\ [][Len(status') /= Len(status) =>
          \E t \in RunThreads : pc[t] = "enter" /\ pc'[t] = "loop"]_vars

C7_Witness ==
  \E t \in RunThreads :
    /\ Returned(t) /\ ret[t] = ErrStopped
    /\ Len(cmds[t]) = 2 /\ Len(status) = 2
    /\ gen[t] >= 2

\* ---- C8 ----
\* C8: every slot whose command has not been launched holds the
\* "not started" value with the command's program name and exit code -1.
C8_UnlaunchedSlotsNotStarted ==
  \A t \in RunThreads :
    (InRun(t) \/ Returned(t)) =>
      \A k \in 1..Len(cmds[t]) :
        procs[k].st \in {"absent", "new"} => status[k] = NotStarted(cmds[t][k])

\* ---- C9 ----
\* C9: when an accepted Run has returned the runner is not running and has
\* no current handle, and the next Run call is accepted.
C9_IdleAfterReturn ==
  /\ [](\A t \in RunThreads : Returned(t) => (~running /\ cmd = NilCmd))
  /\ [][\A t, u \in RunThreads :
          (Returned(u) /\ pc[t] = "enter" /\ pc'[t] /= "enter")
            => (pc'[t] = "loop" /\ running')]_vars

C9_Witness ==
  \E t \in RunThreads :
    /\ Returned(t) /\ gen[t] >= 2 /\ ret[t] = ErrStopped
    /\ \E k \in 1..Len(procs) : procs[k].st = "exited" /\ procs[k].term

\* ---- C10 ----
\* C10: a Stop call that finds no run active returns nil and changes
\* nothing of the runner and of its processes.
C10_StopWhileIdleHasNoEffect ==
  [][/\ (stopPc /= "locked" /\ stopPc' /= stopPc) => UNCHANGED <<rvars, procs>>
     /\ (stopPc = "locked" /\ ~running /\ stopPc' = "idle")
          => (stopErr' = NoErr /\ UNCHANGED <<rvars, procs>>)]_vars

C10_Witness == stopPc = "idle" /\ stopErr = NoErr /\ stopChan.id = 0

\* ---- C11 ----
\* C11: a Stop call during an active run calls terminate on the current
\* handle exactly when there is one, and returns what that call reported;
\* without a handle it makes no terminate call, touches no process and
\* returns nil.  The state of the cancellation signal makes no difference.
C11_StopTerminatesCurrentHandle ==
  [][(stopPc = "locked" /\ running /\ stopPc' = "idle") =>
       IF cmd /= NilCmd
       THEN /\ termCall'.asked = cmd
            /\ stopErr' = termCall'.rep
            /\ procs[cmd + 1].st = "running" => procs'[cmd + 1].term
       ELSE /\ termCall'.asked = NilCmd
            /\ stopErr' = NoErr
            /\ procs' = procs]_vars

\* A second Stop of the same run: the Stop that set the signal found the
\* process not yet started, a later one terminated it and returned the
\* error of the terminate call.
C11_Witness ==
  /\ stopPc = "idle" /\ running /\ stopped
  /\ stopSaw.st = "new"
  /\ termCall.asked = stopSaw.cmd
  /\ termCall.rep = TermErr /\ stopErr = TermErr

\* ---- C12 ----
\* C12: a Status call changes nothing but, when there is a current handle,
\* the slot at the current index, which becomes the snapshot the call took
\* from the current process; without a handle it changes nothing.
C12_StatusWritesOnlyCurrentSlot ==
  [][/\ (statPc /= "store" /\ statPc' /= statPc) =>
          /\ UNCHANGED <<rvars, procs>>
          /\ (statPc = "locked" /\ cmd = NilCmd) => statPc' = "idle"
          /\ (statPc = "locked" /\ cmd /= NilCmd) =>
               (statPc' = "store" /\ snap' = procs[cmd + 1].status)
     /\ (statPc = "store" /\ statPc' /= statPc) =>
          /\ cmd /= NilCmd
          /\ status' = [status EXCEPT ![cur + 1] = snap]
          /\ UNCHANGED <<stopOnError, running, cmd, cur, stopChan, procs>>]_vars

\* Status has refreshed slot 1 (the second command) while slot 0 keeps the
\* final status of the first command.
C12_Witness ==
  /\ statPc = "idle"
  /\ cmd = 1 /\ cur = 1
  /\ procs[2].st = "running"
  /\ status[2] = procs[2].status
  /\ status[1] = procs[1].status /\ procs[1].st = "exited"

\* ---- C13 ----
\* C13: every accepted Run starts with the cancellation signal unset; once
\* set it stays set until the next accepted Run; a Run during which no Stop
\* set the signal does not return ErrStopped and, when it returns nil, has
\* run every command.
C13_CancellationIsPerRun ==
  /\ [][/\ stopChan'.id /= stopChan.id => ~stopChan'.closed
        /\ (stopped /\ ~stopped') => stopChan'.id /= stopChan.id
        /\ stopChan'.id /= stopChan.id =>
             \E t \in RunThreads : pc[t] = "enter" /\ pc'[t] = "loop"]_vars
  /\ [](\A t \in RunThreads :
          (Returned(t) /\ ~stopped) =>
            /\ ret[t] /= ErrStopped
            /\ ret[t] = NoErr => \A k \in 1..Len(procs) : procs[k].st = "exited")

\* A later run with the signal unset, returned nil with all its commands
\* run, after a Stop terminated a process of an earlier run.
C13_Witness ==
  \E t \in RunThreads :
    /\ Returned(t) /\ gen[t] >= 2 /\ ret[t] = NoErr /\ ~stopped
    /\ Len(cmds[t]) >= 1
    /\ \A k \in 1..Len(procs) : ~procs[k].term
    /\ stopPc = "idle" /\ stopErr = TermErr

\* ---- C14 ----
\* C14: whenever there is no current handle the current index is -1.
C14_NoHandleIndexIsNone == cmd = NilCmd => cur = -1

\* ---- C15 ----
\* C15: at most one process is live, it is the one of the current handle,
\* and a command is launched by the Run loop at its index only after every
\* earlier command completed and its completion was received.
C15_OneLiveProcess ==
  /\ [](/\ Cardinality({k \in 1..Len(procs) : procs[k].st = "running"}) <= 1
        /\ \A k \in 1..Len(procs) : procs[k].st = "running" => cmd = k - 1)
  /\ [][\A k \in 1..Len(procs) :
          Launches(k) =>
            /\ \E t \in RunThreads : pc[t] = "start" /\ i[t] = k - 1
            /\ \A u \in RunThreads : pc[u] /= "wait"
            /\ \A j \in 1..(k - 1) : procs[j].st = "exited"]_vars

\* The second command is live after the first one completed, with a
\* rejected Run call, a Stop and a Status call made meanwhile.
C15_Witness ==
  /\ Len(procs) >= 2
  /\ procs[1].st = "exited" /\ procs[2].st = "running"
  /\ \E t \in RunThreads : ret[t] = ErrRunning /\ pc[t] = "idle"
  /\ stopped
  /\ status[2] = procs[2].status

\* ---- C16 ----
\* C16: every step of Run that reads or writes the shared state (the read
\* of stopChan at the loop head, the store of the final status, the read
\* of the stored exit code) is taken while the caller holds the lock.
C16_SharedStateUnderLock ==
  [][\A t \in RunThreads :
       /\ (pc[t] = "loop" /\ pc'[t] /= "loop" /\ i[t] < Len(cmds[t])) => mu = t
       /\ (pc[t] = "wait" /\ pc'[t] /= "wait") => mu = t
       /\ (pc[t] = "exitchk" /\ pc'[t] /= "exitchk") => mu = t]_vars

\* ---- C18 ----
\* C18: Run returns ErrNonzeroExit only with stopOnError and a command
\* whose final status has a non-zero exit code.
C18_NonzeroExitOnlyOnNonzeroFinal ==
  \A t \in RunThreads :
    (Returned(t) /\ ret[t] = ErrNonzeroExit) =>
      /\ stopOnError
      /\ \E k \in 1..Len(procs) :
           procs[k].st = "exited" /\ procs[k].status.Exit /= 0

\* ---- C19 ----
\* C19: when Stop calls terminate on the current handle, or Status takes a
\* snapshot from it, the process is running: started, and its completion
\* not yet received by Run.
C19_HandleOnlyForRunningProcess ==
  [][/\ (stopPc = "locked" /\ stopPc' = "idle" /\ termCall'.asked /= NilCmd)
          => /\ procs[termCall'.asked + 1].st = "running"
             /\ \E t \in RunThreads : pc[t] = "wait"
     /\ (statPc = "locked" /\ statPc' = "store")
          => /\ procs[cmd + 1].st = "running"
             /\ \E t \in RunThreads : pc[t] = "wait"]_vars

\* ---- C17 ----
\* C17: Run never holds the lock while it starts or waits for a command,
\* the lock is always released again, and every Stop call and every Status
\* call returns, also when the command in flight never completes.
C17_StopAndStatusReturn ==
  /\ [](\A t \in RunThreads : pc[t] \in {"start", "wait"} => mu /= t)
  /\ (mu /= "free" ~> mu = "free")
  /\ (stopPc = "call" ~> stopPc = "idle")
  /\ (statPc = "call" ~> statPc = "idle")

\* A Stop call has returned and a Status call has stored a snapshot while
\* Run waits for a command that is still running.
C17_Witness ==
  /\ \E t \in RunThreads : pc[t] = "wait" /\ procs[i[t] + 1].st = "running"
                           /\ status[i[t] + 1] = procs[i[t] + 1].status
  /\ stopPc = "idle" /\ stopSaw.st = "running"
  /\ statPc = "idle"
  /\ mu = "free"

\* ---- C20 ----
\* C20: once Stop has set the cancellation signal during an active run,
\* and terminate requests make started processes complete, Run returns.
C20_RunReturnsAfterStop == (running /\ stopped) ~> ~running
====
